---- MODULE Spec2Model ----
(***************************************************************************)
(* RedshiftToS3Operator (airflow/providers/amazon/aws/transfers/           *)
(* redshift_to_s3.py): construction (__init__), the statement builder      *)
(* (_build_unload_query) and execute, with the collaborators (S3Hook,      *)
(* RedshiftSQLHook, RedshiftDataHook, the task log) as the environment.    *)
(*                                                                         *)
(* Text is a sequence of one-character strings, so that upper(), strip(),  *)
(* join() and re.sub() are computed character by character.  An optional   *)
(* value (str | None, list | None, dict | None) is a record                *)
(* [some, val]: None is [some |-> FALSE].                                  *)
(***************************************************************************)
EXTENDS Integers, Sequences, FiniteSets, TLC

VARIABLES
    pc,          \* where the task is: "new", "init_raised", "constructed", the steps of execute, "returned", "raised"
    args,        \* the keyword arguments __init__ was called with
    self,        \* the operator's attributes (those assigned so far)
    err,         \* the exception that ended __init__ or execute, if any
    nexec,       \* how many times execute has been entered
    hook,        \* execute's local redshift_hook (the class chosen)
    conn,        \* execute's local conn
    credentials_block, \* execute's local credentials_block
    unload_query,      \* execute's local unload_query
    credentials, \* execute's local credentials
    events,      \* collaborator calls and log entries of this execute, in order
    submitted,   \* the backend calls of this execute, with their arguments
    fnArg,       \* input of the function under check (function specifications)
    fnRet        \* its result

vars == <<pc, args, self, err, nexec, hook, conn, credentials,
          credentials_block, unload_query, events, submitted, fnArg, fnRet>>

progVars == <<pc, args, self, err, nexec, hook, conn, credentials,
              credentials_block, unload_query, events, submitted>>

-----------------------------------------------------------------------------
(* Bounds *)

MaxExecs == 2
MaxLen == 8
MaxOpts == 3

-----------------------------------------------------------------------------
(* Optional values and Python truthiness *)

None == [some |-> FALSE, val |-> <<>>]

Some(v) == [some |-> TRUE, val |-> v]

\* bool(x) of a str | None, list | None or dict | None: None and the empty
\* value are false.
Truthy(o) == o.some /\ o.val # <<>>

\* `x or default` for such a value.
OrDefault(o, d) == IF Truthy(o) THEN o.val ELSE d

-----------------------------------------------------------------------------
(* Text *)

QUOTE == "'"

NL == "\n"

Whitespace == {" ", "\t", "\n"}

UpperChar(c) ==
    CASE c = "h" -> "H"
      [] c = "e" -> "E"
      [] c = "a" -> "A"
      [] c = "d" -> "D"
      [] c = "r" -> "R"
      [] c = "c" -> "C"
      [] c = "s" -> "S"
      [] c = "v" -> "V"
      [] OTHER -> c

\* str.upper()
Upper(s) == [i \in 1..Len(s) |-> UpperChar(s[i])]

\* str.strip(): leading and trailing whitespace removed.
Strip(s) ==
    LET idx == {i \in 1..Len(s) : s[i] \notin Whitespace}
        lo == CHOOSE i \in idx : \A j \in idx : i <= j
        hi == CHOOSE i \in idx : \A j \in idx : i >= j
    IN  IF idx = {} THEN <<>> ELSE SubSeq(s, lo, hi)

RECURSIVE Join(_, _)
\* sep.join(list)
Join(sep, list) ==
    IF list = <<>> THEN <<>>
    ELSE IF Len(list) = 1 THEN list[1]
    ELSE list[1] \o sep \o Join(sep, Tail(list))

HEADER == <<"H", "E", "A", "D", "E", "R">>

SELECT_STAR_FROM == <<"S", "E", "L", "E", "C", "T", " ", "*", " ", "F", "R", "O", "M", " ">>

AWS_IAM_ROLE_EQ == <<"a", "w", "s", "_", "i", "a", "m", "_", "r", "o", "l", "e", "=">>

S3_SCHEME == <<"s", "3", ":", "/", "/">>

OPTION_SEP == <<"\n", "\t", "\t", "\t">>

-----------------------------------------------------------------------------
(* re.sub(r"''(.+)''", r"'\1'", select_query) *)

IsQQ(s, i) == i >= 1 /\ i + 1 <= Len(s) /\ s[i] = QUOTE /\ s[i + 1] = QUOTE

\* The positions e at which a match opened at i can close: s[e], s[e+1] are
\* the closing quotes and the group s[i+2 .. e-1] is one or more characters,
\* none a newline (the dot does not match a newline).
MatchEnds(s, i) ==
    {e \in (i + 3)..(Len(s) - 1) :
        /\ IsQQ(s, e)
        /\ \A j \in (i + 2)..(e - 1) : s[j] # NL}

SetMax(S) == CHOOSE x \in S : \A y \in S : x >= y

\* (.+) is greedy: of the possible closings the regex engine takes the last.
GroupEnd(s, i) == SetMax(MatchEnds(s, i))

RECURSIVE SubFrom(_, _)
\* re.sub scanning from pos: the leftmost match is replaced, and the scan
\* goes on after the match; the replacement is not scanned again.
SubFrom(s, pos) ==
    IF pos > Len(s) THEN <<>>
    ELSE IF IsQQ(s, pos) /\ MatchEnds(s, pos) # {}
         THEN LET e == GroupEnd(s, pos)
              IN  <<QUOTE>> \o SubSeq(s, pos + 2, e - 1) \o <<QUOTE>> \o SubFrom(s, e + 2)
         ELSE <<s[pos]>> \o SubFrom(s, pos + 1)

Unescape(select_query) == SubFrom(select_query, 1)

-----------------------------------------------------------------------------
(* RedshiftToS3Operator.__init__ *)

NoError == [type |-> "", arg |-> ""]

\* S3Key without the table_as_file_name test.
S3KeyIgnoringFlag(s3_key, table, table_as_file_name) ==
    IF Truthy(table)
    THEN s3_key \o <<"/">> \o table.val \o <<"_">>
    ELSE s3_key

\* self.s3_key = f"{s3_key}/{table}_" if (table and table_as_file_name) else s3_key
S3Key(s3_key, table, table_as_file_name) ==
    IF Truthy(table) /\ table_as_file_name
    THEN s3_key \o <<"/">> \o table.val \o <<"_">>
    ELSE s3_key

\* SelectQuery with `or` for `and`: schema or table alone is accepted.
SelectQueryEither(select_query, schema, table) ==
    IF Truthy(select_query) THEN Some(select_query.val)
    ELSE IF Truthy(schema) \/ Truthy(table)
         THEN Some(SELECT_STAR_FROM \o schema.val \o <<".">> \o table.val)
         ELSE None

\* The select text __init__ settles on, or None where it raises ValueError.
SelectQuery(select_query, schema, table) ==
    IF Truthy(select_query) THEN Some(select_query.val)
    ELSE IF Truthy(schema) /\ Truthy(table)
         THEN Some(SELECT_STAR_FROM \o schema.val \o <<".">> \o table.val)
         ELSE None

\* HasHeader comparing the options as given, without upper() and strip().
HasHeaderExact(unload_options) ==
    \E i \in 1..Len(unload_options) : unload_options[i] = HEADER

\* "HEADER" not in [uo.upper().strip() for uo in self.unload_options]
HasHeader(unload_options) ==
    \E i \in 1..Len(unload_options) : Strip(Upper(unload_options[i])) = HEADER

WithHeader(unload_options, include_header) ==
    IF include_header /\ ~HasHeader(unload_options)
    THEN unload_options \o <<HEADER>>
    ELSE unload_options

\* ForbiddenArg looking for "sql" only.
ForbiddenArgSqlOnly(kwargs) ==
    IF kwargs = <<>> THEN ""
    ELSE IF "sql" \in DOMAIN kwargs THEN "sql"
    ELSE ""

\* for arg in ["sql", "parameters"]: if arg in self.redshift_data_api_kwargs: raise
\* The first such arg, or "" where none is found.
ForbiddenArg(kwargs) ==
    IF kwargs = <<>> THEN ""
    ELSE IF "sql" \in DOMAIN kwargs THEN "sql"
    ELSE IF "parameters" \in DOMAIN kwargs THEN "parameters"
    ELSE ""

\* The attributes assigned before the first check.
Attributes(a) ==
    [s3_bucket |-> a.s3_bucket,
     s3_key |-> S3Key(a.s3_key, a.table, a.table_as_file_name),
     schema |-> a.schema,
     table |-> a.table,
     redshift_conn_id |-> a.redshift_conn_id,
     aws_conn_id |-> a.aws_conn_id,
     verify |-> a.verify,
     unload_options |-> OrDefault(a.unload_options, <<>>),
     autocommit |-> a.autocommit,
     include_header |-> a.include_header,
     parameters |-> a.parameters,
     table_as_file_name |-> a.table_as_file_name,
     redshift_data_api_kwargs |-> OrDefault(a.redshift_data_api_kwargs, <<>>),
     select_query |-> None]

\* __init__(**a): the exception it ends with (NoError when it returns) and
\* the attributes assigned by then.  select_query stays None (unassigned)
\* when the ValueError is raised.
OperatorInit(a) ==
    LET s0 == Attributes(a)
        q == SelectQuery(a.select_query, s0.schema, s0.table)
        s1 == [s0 EXCEPT !.select_query = q]
        s2 == [s1 EXCEPT !.unload_options = WithHeader(s1.unload_options, s1.include_header)]
        bad == ForbiddenArg(s2.redshift_data_api_kwargs)
    IN  IF ~q.some
        THEN [self |-> s0, err |-> [type |-> "ValueError", arg |-> ""]]
        ELSE IF bad # ""
             THEN [self |-> s2, err |-> [type |-> "AirflowException", arg |-> bad]]
             ELSE [self |-> s2, err |-> NoError]

-----------------------------------------------------------------------------
(* The configurations the task is constructed with *)

OptTexts(S) == {None} \cup {Some(t) : t \in S}

OptHeaderUpper == HEADER

OptHeaderLower == <<"h", "e", "a", "d", "e", "r">>

OptHeaderPadded == <<" ", "H", "e", "a", "d", "e", "r", "\t">>

OptCsv == <<"c", "s", "v">>

OptionTokens == {OptHeaderUpper, OptHeaderLower, OptHeaderPadded, OptCsv}

EscapedQuery == <<"'", "'", "a", "'", "'", "b", "'", "'">>

PlainQuery == <<"q">>

KwargKeys == {"sql", "parameters", "database"}

\* dict | None with keys among KwargKeys
KwargDicts == {None} \cup {Some([k \in K |-> "v"]) : K \in SUBSET KwargKeys}

ArgSpace ==
    [s3_bucket : {<<"b">>},
     s3_key : {<<"k">>},
     schema : OptTexts({<<>>, <<"s">>}),
     table : OptTexts({<<>>, <<"t">>}),
     select_query : OptTexts({<<>>, PlainQuery, EscapedQuery}),
     redshift_conn_id : {"redshift_default"},
     aws_conn_id : OptTexts({<<>>, <<"a", "w", "s">>}),
     verify : {None},
     unload_options : {None, Some(<<>>), Some(<<OptHeaderLower>>), Some(<<OptCsv>>)},
     autocommit : BOOLEAN,
     include_header : BOOLEAN,
     parameters : {None},
     table_as_file_name : BOOLEAN,
     redshift_data_api_kwargs : KwargDicts]

-----------------------------------------------------------------------------
(* RedshiftToS3Operator._build_unload_query *)

\* The statement, as the four values the template interpolates:
\*   UNLOAD ($${select}$$) TO '{to}' credentials '{credentials}' {options};
\* with to = s3://{self.s3_bucket}/{s3_key}.
BuildUnloadQuery(s3_bucket, credentials_blk, select_query, s3_key, unload_options) ==
    [select |-> Unescape(select_query),
     to |-> S3_SCHEME \o s3_bucket \o <<"/">> \o s3_key,
     credentials |-> credentials_blk,
     options |-> unload_options]

-----------------------------------------------------------------------------
(* The collaborators *)

Arn1 == <<"r", "1">>

Arn2 == <<"r", "2">>

\* conn.extra_dejson, as far as execute reads it: the role_arn entry (None
\* when the key is missing; it may be present and empty).
ConnExtras == [role_arn : OptTexts({<<>>, Arn1, Arn2})]

\* What S3Hook.get_credentials returns: long-lived keys, or STS keys with a
\* session token.
CredentialSet ==
    {[access_key |-> <<"A", "1">>, secret_key |-> <<"S", "1">>, token |-> None],
     [access_key |-> <<"A", "2">>, secret_key |-> <<"S", "2">>, token |-> Some(<<"T", "2">>)]}

KEY_EQ == <<"a", "w", "s", "_", "a", "c", "c", "e", "s", "s", "_", "k", "e", "y", "_", "i", "d", "=">>

SECRET_EQ == <<";", "a", "w", "s", "_", "s", "e", "c", "r", "e", "t", "_", "a", "c", "c", "e", "s", "s", "_", "k", "e", "y", "=">>

TOKEN_EQ == <<";", "t", "o", "k", "e", "n", "=">>

\* airflow.providers.amazon.aws.utils.redshift.build_credentials_block
build_credentials_block(c) ==
    KEY_EQ \o c.access_key \o SECRET_EQ \o c.secret_key
        \o (IF Truthy(c.token) THEN TOKEN_EQ \o c.token.val ELSE <<>>)

LOG_EXECUTING == "Executing UNLOAD command..."

LOG_COMPLETE == "UNLOAD command complete..."

Call(op, ok) == [op |-> op, msg |-> "", ok |-> ok]

LogInfo(msg) == [op |-> "log.info", msg |-> msg, ok |-> TRUE]

\* The exception a collaborator's failing call raises.
RaisedBy(op) == [type |-> "CollaboratorError", arg |-> op]

-----------------------------------------------------------------------------
(* The state machine *)

NoObject == <<>>

NoLocal == <<>>

Init ==
    /\ pc = "new"
    /\ args = NoObject
    /\ self = NoObject
    /\ err = NoError
    /\ nexec = 0
    /\ hook = ""
    /\ conn = None
    /\ credentials = None
    /\ credentials_block = NoLocal
    /\ unload_query = NoLocal
    /\ events = <<>>
    /\ submitted = <<>>
    /\ fnArg = <<>>
    /\ fnRet = <<>>

locals == <<hook, conn, credentials, credentials_block, unload_query>>

\* RedshiftToS3Operator(**a)
Construct ==
    /\ pc = "new"
    /\ \E a \in ArgSpace :
        LET r == OperatorInit(a)
        IN  /\ args' = a
            /\ self' = r.self
            /\ err' = r.err
            /\ pc' = IF r.err = NoError THEN "constructed" ELSE "init_raised"
    /\ UNCHANGED <<nexec, locals, events, submitted, fnArg, fnRet>>

\* HookFor that never picks the Data-API hook.
HookForAlwaysSql(kwargs) == "RedshiftSQLHook"

\* The hook class execute picks from self.redshift_data_api_kwargs.
HookFor(kwargs) == IF kwargs # <<>> THEN "RedshiftDataHook" ELSE "RedshiftSQLHook"

\* ExecuteEnter of an operator that keeps the credentials block of its first
\* execution and resolves nothing in the later ones.
ExecuteEnterCached ==
    /\ pc \in {"constructed", "returned", "raised"}
    /\ nexec < MaxExecs
    /\ nexec' = nexec + 1
    /\ err' = NoError
    /\ hook' = IF self.redshift_data_api_kwargs # <<>> THEN "RedshiftDataHook" ELSE "RedshiftSQLHook"
    /\ conn' = None
    /\ credentials' = None
    /\ credentials_block' = credentials_block
    /\ unload_query' = NoLocal
    /\ events' = <<>>
    /\ submitted' = <<>>
    /\ pc' = IF credentials_block = NoLocal THEN "get_connection" ELSE "build"
    /\ UNCHANGED <<args, self, fnArg, fnRet>>

\* execute is entered (by the worker, or entered again after it returned or
\* raised): a fresh frame, and the hook is chosen.
ExecuteEnter ==
    /\ pc \in {"constructed", "returned", "raised"}
    /\ nexec < MaxExecs
    /\ nexec' = nexec + 1
    /\ err' = NoError
    /\ hook' = HookFor(self.redshift_data_api_kwargs)
    /\ conn' = None
    /\ credentials' = None
    /\ credentials_block' = NoLocal
    /\ unload_query' = NoLocal
    /\ events' = <<>>
    /\ submitted' = <<>>
    /\ pc' = "get_connection"
    /\ UNCHANGED <<args, self, fnArg, fnRet>>

\* conn = S3Hook.get_connection(conn_id=self.aws_conn_id) if self.aws_conn_id else None
GetConnection ==
    /\ pc = "get_connection"
    /\ IF Truthy(self.aws_conn_id)
       THEN \/ \E x \in ConnExtras :
                 /\ conn' = Some(x)
                 /\ events' = Append(events, Call("S3Hook.get_connection", TRUE))
                 /\ pc' = "credentials"
                 /\ err' = err
            \/ /\ conn' = conn
               /\ events' = Append(events, Call("S3Hook.get_connection", FALSE))
               /\ pc' = "raised"
               /\ err' = RaisedBy("S3Hook.get_connection")
       ELSE /\ conn' = None
            /\ events' = events
            /\ pc' = "credentials"
            /\ err' = err
    /\ UNCHANGED <<args, self, nexec, hook, credentials, credentials_block,
                   unload_query, submitted, fnArg, fnRet>>

\* HasRoleArn as `"role_arn" in conn.extra_dejson`: an empty entry counts.
HasRoleArnKey(c) == c.some /\ c.val.role_arn.some

\* conn and conn.extra_dejson.get("role_arn", False)
HasRoleArn(c) == c.some /\ Truthy(c.val.role_arn)

\* The role branch: credentials_block = f"aws_iam_role={conn.extra_dejson['role_arn']}"
UseRoleArn ==
    /\ pc = "credentials"
    /\ HasRoleArn(conn)
    /\ credentials_block' = AWS_IAM_ROLE_EQ \o conn.val.role_arn.val
    /\ pc' = "build"
    /\ UNCHANGED <<args, self, err, nexec, hook, conn, credentials,
                   unload_query, events, submitted, fnArg, fnRet>>

\* The other branch: S3Hook(...).get_credentials(), then build_credentials_block.
GetCredentials ==
    /\ pc = "credentials"
    /\ ~HasRoleArn(conn)
    /\ \/ \E c \in CredentialSet :
            /\ credentials' = Some(c)
            /\ credentials_block' = build_credentials_block(c)
            /\ events' = Append(events, Call("S3Hook.get_credentials", TRUE))
            /\ pc' = "build"
            /\ err' = err
       \/ /\ UNCHANGED <<credentials, credentials_block>>
          /\ events' = Append(events, Call("S3Hook.get_credentials", FALSE))
          /\ pc' = "raised"
          /\ err' = RaisedBy("S3Hook.get_credentials")
    /\ UNCHANGED <<args, self, nexec, hook, conn, unload_query, submitted,
                   fnArg, fnRet>>

\* unload_options is joined and the statement built.
BuildQuery ==
    /\ pc = "build"
    /\ unload_query' = BuildUnloadQuery(self.s3_bucket, credentials_block,
                            self.select_query.val, self.s3_key,
                            Join(OPTION_SEP, self.unload_options))
    /\ pc' = "log_executing"
    /\ UNCHANGED <<args, self, err, nexec, hook, conn, credentials,
                   credentials_block, events, submitted, fnArg, fnRet>>

\* self.log.info("Executing UNLOAD command...")
LogExecuting ==
    /\ pc = "log_executing"
    /\ events' = Append(events, LogInfo(LOG_EXECUTING))
    /\ pc' = "submit"
    /\ UNCHANGED <<args, self, err, nexec, locals, submitted, fnArg, fnRet>>

\* The call execute makes on the hook it chose.
BackendCall(h) ==
    IF h = "RedshiftDataHook"
    THEN [method |-> "RedshiftDataHook.execute_query",
          args |-> <<>>,
          kwargs |-> [k \in {"sql", "parameters"} |->
                         IF k = "sql" THEN unload_query ELSE self.parameters]
                     @@ self.redshift_data_api_kwargs]
    ELSE [method |-> "RedshiftSQLHook.run",
          args |-> <<unload_query, self.autocommit>>,
          kwargs |-> [k \in {"parameters"} |-> self.parameters]]

\* Submit that submits again when the call raises.
SubmitRetrying ==
    /\ pc = "submit"
    /\ submitted' = Append(submitted, BackendCall(hook))
    /\ \/ /\ events' = Append(events, Call(BackendCall(hook).method, TRUE))
          /\ pc' = "log_complete"
          /\ err' = err
       \/ /\ events' = Append(events, Call(BackendCall(hook).method, FALSE))
          /\ pc' = IF Len(submitted) = 0 THEN "submit" ELSE "raised"
          /\ err' = RaisedBy(BackendCall(hook).method)
    /\ UNCHANGED <<args, self, nexec, locals, fnArg, fnRet>>

\* Submit whose completion entry is written in a `finally`.
SubmitCompleteAlways ==
    /\ pc = "submit"
    /\ submitted' = Append(submitted, BackendCall(hook))
    /\ \/ /\ events' = Append(events, Call(BackendCall(hook).method, TRUE))
          /\ pc' = "log_complete"
          /\ err' = err
       \/ /\ events' = Append(Append(events, Call(BackendCall(hook).method, FALSE)),
                              LogInfo(LOG_COMPLETE))
          /\ pc' = "raised"
          /\ err' = RaisedBy(BackendCall(hook).method)
    /\ UNCHANGED <<args, self, nexec, locals, fnArg, fnRet>>

\* The statement is handed to the hook; the call returns or raises.
Submit ==
    /\ pc = "submit"
    /\ submitted' = Append(submitted, BackendCall(hook))
    /\ \/ /\ events' = Append(events, Call(BackendCall(hook).method, TRUE))
          /\ pc' = "log_complete"
          /\ err' = err
       \/ /\ events' = Append(events, Call(BackendCall(hook).method, FALSE))
          /\ pc' = "raised"
          /\ err' = RaisedBy(BackendCall(hook).method)
    /\ UNCHANGED <<args, self, nexec, locals, fnArg, fnRet>>

\* self.log.info("UNLOAD command complete..."), and execute returns.
LogComplete ==
    /\ pc = "log_complete"
    /\ events' = Append(events, LogInfo(LOG_COMPLETE))
    /\ pc' = "returned"
    /\ UNCHANGED <<args, self, err, nexec, locals, submitted, fnArg, fnRet>>

Next ==
    \/ Construct
    \/ ExecuteEnter
    \/ GetConnection
    \/ UseRoleArn
    \/ GetCredentials
    \/ BuildQuery
    \/ LogExecuting
    \/ Submit
    \/ LogComplete

Spec == Init /\ [][Next]_vars

-----------------------------------------------------------------------------
(* Function specifications: the inputs are drawn in the initial state and  *)
(* the one action applies the function.                                    *)

ProgInit ==
    /\ pc = "new"
    /\ args = NoObject
    /\ self = NoObject
    /\ err = NoError
    /\ nexec = 0
    /\ hook = ""
    /\ conn = None
    /\ credentials = None
    /\ credentials_block = NoLocal
    /\ unload_query = NoLocal
    /\ events = <<>>
    /\ submitted = <<>>

TextAlphabet == {QUOTE, "a", NL}

TextsUpTo(n) == UNION {[1..k -> TextAlphabet] : k \in 0..n}

InitUnescape ==
    /\ ProgInit
    /\ fnArg \in TextsUpTo(MaxLen)
    /\ fnRet = None

\* _build_unload_query on the select text fnArg.
ApplyBuildUnloadQuery ==
    /\ ~fnRet.some
    /\ fnRet' = Some(BuildUnloadQuery(<<"b">>, <<"c">>, fnArg, <<"k">>, <<>>))
    /\ UNCHANGED <<progVars, fnArg>>

SpecUnescape == InitUnescape /\ [][ApplyBuildUnloadQuery]_vars

OptionLists(n) == UNION {[1..k -> OptionTokens] : k \in 0..n}

BaseArgs ==
    [s3_bucket |-> <<"b">>,
     s3_key |-> <<"k">>,
     schema |-> None,
     table |-> None,
     select_query |-> Some(PlainQuery),
     redshift_conn_id |-> "redshift_default",
     aws_conn_id |-> Some(<<"a", "w", "s">>),
     verify |-> None,
     unload_options |-> None,
     autocommit |-> FALSE,
     include_header |-> FALSE,
     parameters |-> None,
     table_as_file_name |-> TRUE,
     redshift_data_api_kwargs |-> None]

InitHeader ==
    /\ ProgInit
    /\ fnArg \in [unload_options : {None} \cup {Some(l) : l \in OptionLists(MaxOpts)},
                  include_header : BOOLEAN]
    /\ fnRet = None

\* __init__ with the option list and include_header of fnArg.
ApplyOperatorInit ==
    /\ ~fnRet.some
    /\ fnRet' = Some(OperatorInit([BaseArgs EXCEPT
                        !.unload_options = fnArg.unload_options,
                        !.include_header = fnArg.include_header]))
    /\ UNCHANGED <<progVars, fnArg>>

SpecHeader == InitHeader /\ [][ApplyOperatorInit]_vars

-----------------------------------------------------------------------------
(* Reading the record of an execution *)

Constructed == pc \notin {"new", "init_raised"}

CountOp(op) == Cardinality({i \in 1..Len(events) : events[i].op = op})

CountLog(msg) ==
    Cardinality({i \in 1..Len(events) : events[i].op = "log.info" /\ events[i].msg = msg})

BackendOps == {"RedshiftDataHook.execute_query", "RedshiftSQLHook.run"}

StorageOps == {"S3Hook.get_connection", "S3Hook.get_credentials"}

\* The statement a backend call was given.
StatementOf(call) ==
    IF call.method = "RedshiftDataHook.execute_query" THEN call.kwargs.sql ELSE call.args[1]

-----------------------------------------------------------------------------
(* C1 *)

SourceGiven(a) == Truthy(a.select_query) \/ (Truthy(a.schema) /\ Truthy(a.table))

\* C1: construction raises the ValueError exactly for the configurations
\* with no select_query (None or empty) and schema or table missing; with a
\* select_query, or with schema and table, it does not, and with schema and
\* table alone the select text is SELECT * FROM <schema>.<table>.
C1_SourceValidation ==
    pc # "new" =>
        /\ ~SourceGiven(args) => pc = "init_raised" /\ err.type = "ValueError"
        /\ SourceGiven(args) => err.type # "ValueError"
        /\ SourceGiven(args) => self.select_query.some
        /\ Truthy(args.select_query) => self.select_query.val = args.select_query.val
        /\ (~Truthy(args.select_query) /\ SourceGiven(args)) =>
              self.select_query.val =
                  SELECT_STAR_FROM \o args.schema.val \o <<".">> \o args.table.val

C1_Witness ==
    /\ pc = "init_raised"
    /\ err.type = "ValueError"
    /\ ~Truthy(args.select_query)
    /\ Truthy(args.schema)
    /\ ~Truthy(args.table)

-----------------------------------------------------------------------------
(* C2 *)

GivenKwargs(a) == OrDefault(a.redshift_data_api_kwargs, <<>>)

ForbiddenGiven(a) == DOMAIN GivenKwargs(a) \cap {"sql", "parameters"}

\* C2 as stated: every configuration whose Data-API options hold sql or
\* parameters fails with the error naming the offending key, and no other
\* configuration fails this way.
C2_AsStated ==
    pc # "new" =>
        /\ ForbiddenGiven(args) # {} =>
              /\ pc = "init_raised"
              /\ err.type = "AirflowException"
              /\ err.arg \in ForbiddenGiven(args)
        /\ ForbiddenGiven(args) = {} => err.type # "AirflowException"

\* C2, amended: every configuration whose Data-API options hold sql or
\* parameters fails construction; the error names the offending key (sql
\* when both are there) when the source check passes, and is the source
\* check's ValueError otherwise.  No configuration without these keys fails
\* with the key-naming error.
C2_ForbiddenKwargs ==
    pc # "new" =>
        /\ ForbiddenGiven(args) # {} => pc = "init_raised"
        /\ (ForbiddenGiven(args) # {} /\ SourceGiven(args)) =>
              /\ err.type = "AirflowException"
              /\ err.arg = IF "sql" \in ForbiddenGiven(args) THEN "sql" ELSE "parameters"
        /\ (ForbiddenGiven(args) # {} /\ ~SourceGiven(args)) => err.type = "ValueError"
        /\ ForbiddenGiven(args) = {} => err.type # "AirflowException"

C2_Witness ==
    /\ pc = "init_raised"
    /\ err = [type |-> "AirflowException", arg |-> "parameters"]
    /\ DOMAIN GivenKwargs(args) = {"parameters", "database"}

-----------------------------------------------------------------------------
(* C3 *)

\* The entries of a list that are HEADER once upper-cased and trimmed.
HeaderLike(list) == {i \in 1..Len(list) : Strip(Upper(list[i])) = HEADER}

GivenOptions == OrDefault(fnArg.unload_options, <<>>)

ResultOptions == fnRet.val.self.unload_options

\* C3 as stated: with include_header the resulting list holds exactly one
\* entry matching HEADER whatever list was given; the given list is kept
\* when it held one and HEADER is appended otherwise; without
\* include_header the list is unchanged.
C3_AsStated ==
    (fnRet.some /\ fnRet.val.err = NoError) =>
        /\ fnArg.include_header =>
              /\ Cardinality(HeaderLike(ResultOptions)) = 1
              /\ ResultOptions = IF HeaderLike(GivenOptions) # {}
                                 THEN GivenOptions
                                 ELSE GivenOptions \o <<HEADER>>
        /\ ~fnArg.include_header => ResultOptions = GivenOptions

\* C3, amended: with include_header the resulting list holds at least one
\* entry that is HEADER once upper-cased and trimmed of surrounding
\* whitespace, and exactly one when the given list held at most one: a list
\* that already held such entries is left as given (all of them kept),
\* otherwise the literal HEADER is appended once at the end, the given
\* options kept in order; without include_header the list is unchanged.
C3_HeaderOption ==
    (fnRet.some /\ fnRet.val.err = NoError) =>
        /\ fnArg.include_header =>
              /\ Cardinality(HeaderLike(ResultOptions)) >= 1
              /\ Cardinality(HeaderLike(GivenOptions)) <= 1 =>
                    Cardinality(HeaderLike(ResultOptions)) = 1
              /\ ResultOptions = IF HeaderLike(GivenOptions) # {}
                                 THEN GivenOptions
                                 ELSE GivenOptions \o <<HEADER>>
        /\ ~fnArg.include_header => ResultOptions = GivenOptions

C3_Witness ==
    /\ fnRet.some
    /\ fnRet.val.err = NoError
    /\ fnArg.include_header
    /\ GivenOptions = <<OptCsv, OptHeaderPadded>>
    /\ ResultOptions = GivenOptions

-----------------------------------------------------------------------------
(* C4 *)

SetMin(S) == CHOOSE x \in S : \A y \in S : x <= y

GroupEndLazy(s, i) == SetMin(MatchEnds(s, i))

RECURSIVE LazySubFrom(_, _)
\* The substitution with a non-greedy group, r"''(.+?)''": each match closes
\* at the first possible closing.
LazySubFrom(s, pos) ==
    IF pos > Len(s) THEN <<>>
    ELSE IF IsQQ(s, pos) /\ MatchEnds(s, pos) # {}
         THEN LET e == GroupEndLazy(s, pos)
              IN  <<QUOTE>> \o SubSeq(s, pos + 2, e - 1) \o <<QUOTE>> \o LazySubFrom(s, e + 2)
         ELSE <<s[pos]>> \o LazySubFrom(s, pos + 1)

\* C4: the select text of the built statement is the given text with every
\* ''<inner>'' replaced by '<inner>', the inner content matched
\* non-greedily, in one pass, the rest of the text unchanged.
C4_NonGreedyUnescape ==
    fnRet.some => fnRet.val.select = LazySubFrom(fnArg, 1)

-----------------------------------------------------------------------------
(* C5 *)

ExpectedKey(a) ==
    IF a.table_as_file_name /\ a.table.some /\ a.table.val # <<>>
    THEN a.s3_key \o <<"/">> \o a.table.val \o <<"_">>
    ELSE a.s3_key

\* C5: the effective key is s3_key/table_ when table_as_file_name is set and
\* a table is given, s3_key otherwise, with or without a select_query, and
\* the destination of every statement built or submitted is
\* s3://<bucket>/<that key>.
C5_EffectiveKey ==
    pc # "new" =>
        /\ self.s3_key = ExpectedKey(args)
        /\ unload_query # NoLocal =>
              unload_query.to = S3_SCHEME \o args.s3_bucket \o <<"/">> \o ExpectedKey(args)
        /\ \A i \in 1..Len(submitted) :
              StatementOf(submitted[i]).to =
                  S3_SCHEME \o args.s3_bucket \o <<"/">> \o ExpectedKey(args)

C5_Witness ==
    /\ pc = "returned"
    /\ args.table_as_file_name
    /\ Truthy(args.table)
    /\ Truthy(args.select_query)
    /\ Len(submitted) = 1
    /\ StatementOf(submitted[1]).to = <<"s", "3", ":", "/", "/", "b", "/", "k", "/", "t", "_">>

-----------------------------------------------------------------------------
(* C6 *)

\* The get_credentials call comes before every backend call.
CredentialsFetchedFirst ==
    \A j \in 1..Len(events) :
        events[j].op \in BackendOps =>
            \E i \in 1..(j - 1) : events[i].op = "S3Hook.get_credentials"

\* C6 where `carries` says that the connection carries a role_arn.
RoleArnRule(carries) ==
    /\ carries =>
          /\ CountOp("S3Hook.get_credentials") = 0
          /\ \A i \in 1..Len(submitted) :
                StatementOf(submitted[i]).credentials =
                    AWS_IAM_ROLE_EQ \o conn.val.role_arn.val
    /\ (~carries /\ submitted # <<>>) =>
          /\ CountOp("S3Hook.get_credentials") = 1
          /\ CredentialsFetchedFirst

\* C6 as stated: whenever the connection's extra holds a role_arn entry the
\* clause is aws_iam_role=<arn> and get_credentials is never called;
\* otherwise get_credentials is called exactly once before the submission.
C6_AsStated == RoleArnRule(conn.some /\ conn.val.role_arn.some)

\* C6, amended: whenever the connection's extra holds a non-empty role_arn
\* the clause is aws_iam_role=<arn> and get_credentials is never called;
\* when the role_arn is missing or empty, or no connection id is
\* configured, get_credentials is called exactly once before the
\* submission.
C6_RoleArn ==
    RoleArnRule(conn.some /\ conn.val.role_arn.some /\ conn.val.role_arn.val # <<>>)

C6_Witness ==
    /\ pc = "returned"
    /\ conn.some
    /\ conn.val.role_arn = Some(Arn1)
    /\ CountOp("S3Hook.get_credentials") = 0
    /\ StatementOf(submitted[1]).credentials = AWS_IAM_ROLE_EQ \o Arn1

-----------------------------------------------------------------------------
(* C7 *)

\* C7: with Data-API options the statement goes to execute_query, with
\* parameters and the options as keyword arguments, and run is never
\* called; without them it goes to run, with autocommit and parameters, and
\* execute_query is never called.
C7_BackendExclusive ==
    Constructed =>
        LET given == GivenKwargs(args)
        IN  /\ Len(submitted) = CountOp("RedshiftDataHook.execute_query")
                                  + CountOp("RedshiftSQLHook.run")
            /\ given # <<>> => CountOp("RedshiftSQLHook.run") = 0
            /\ given = <<>> => CountOp("RedshiftDataHook.execute_query") = 0
            /\ \A i \in 1..Len(submitted) :
                  LET c == submitted[i]
                  IN  IF given # <<>>
                      THEN /\ c.method = "RedshiftDataHook.execute_query"
                           /\ c.args = <<>>
                           /\ DOMAIN c.kwargs = {"sql", "parameters"} \cup DOMAIN given
                           /\ c.kwargs.sql = unload_query
                           /\ c.kwargs.parameters = args.parameters
                           /\ \A k \in DOMAIN given : c.kwargs[k] = given[k]
                      ELSE /\ c.method = "RedshiftSQLHook.run"
                           /\ Len(c.args) = 2
                           /\ c.args[1] = unload_query
                           /\ c.args[2] = args.autocommit
                           /\ DOMAIN c.kwargs = {"parameters"}
                           /\ c.kwargs.parameters = args.parameters

C7_Witness ==
    /\ pc = "returned"
    /\ DOMAIN GivenKwargs(args) = {"database"}
    /\ Len(submitted) = 1
    /\ submitted[1].method = "RedshiftDataHook.execute_query"
    /\ CountOp("RedshiftSQLHook.run") = 0

-----------------------------------------------------------------------------
(* C8 *)

\* C8: a failing collaborator call is the last thing an execution does and
\* its exception is the one the execution ends with; the backend is
\* submitted to at most once, and not at all when credential resolution
\* failed.
C8_NoRetry ==
    /\ Len(submitted) <= 1
    /\ CountOp("RedshiftDataHook.execute_query") + CountOp("RedshiftSQLHook.run")
          = Len(submitted)
    /\ \A i \in 1..Len(events) :
          ~events[i].ok =>
              /\ i = Len(events)
              /\ pc = "raised"
              /\ err = RaisedBy(events[i].op)
              /\ events[i].op \in StorageOps => submitted = <<>>
    /\ pc = "raised" => (events # <<>> /\ ~events[Len(events)].ok)

C8_Witness ==
    /\ pc = "raised"
    /\ err = RaisedBy("RedshiftSQLHook.run")
    /\ Len(submitted) = 1

-----------------------------------------------------------------------------
(* C9 *)

IsLog(e, msg) == e.op = "log.info" /\ e.msg = msg

\* C9: the start entry is written once, after credential resolution and the
\* building of the statement and before the submission; the completion
\* entry is written once, right after the backend call returned, and only
\* then; a failure of credential resolution leaves no entry, a failure of
\* the backend leaves the start entry alone.
C9_LogOrder ==
    /\ CountLog(LOG_EXECUTING) <= 1
    /\ CountLog(LOG_COMPLETE) <= 1
    /\ \A i \in 1..Len(events) :
          IsLog(events[i], LOG_EXECUTING) =>
              /\ credentials_block # NoLocal
              /\ unload_query # NoLocal
              /\ \A j \in 1..Len(events) :
                    /\ events[j].op \in StorageOps => j < i
                    /\ events[j].op \in BackendOps => j > i
    /\ \A j \in 1..Len(events) :
          events[j].op \in BackendOps => CountLog(LOG_EXECUTING) = 1
    /\ pc = "submit" => CountLog(LOG_EXECUTING) = 1
    /\ \A i \in 1..Len(events) :
          IsLog(events[i], LOG_COMPLETE) =>
              /\ i = Len(events)
              /\ i > 1
              /\ events[i - 1].op \in BackendOps
              /\ events[i - 1].ok
    /\ pc = "returned" <=> CountLog(LOG_COMPLETE) = 1
    /\ \A i \in 1..Len(events) :
          ~events[i].ok =>
              IF events[i].op \in StorageOps
              THEN CountOp("log.info") = 0
              ELSE CountLog(LOG_EXECUTING) = 1 /\ CountLog(LOG_COMPLETE) = 0

C9_Witness ==
    /\ pc = "returned"
    /\ Len(events) = 5
    /\ events[2].op = "S3Hook.get_credentials"
    /\ IsLog(events[3], LOG_EXECUTING)
    /\ events[4].op = "RedshiftSQLHook.run"
    /\ IsLog(events[5], LOG_COMPLETE)

-----------------------------------------------------------------------------
(* C10 *)

\* The credentials clause that follows from what the collaborators answered
\* in this execution is the one in every statement this execution submits,
\* and the answers were asked for in this execution, before the submission.
OwnCredentialsUsed ==
    \A i \in 1..Len(submitted) :
        /\ Truthy(self.aws_conn_id) =>
              (events # <<>> /\ events[1] = Call("S3Hook.get_connection", TRUE))
        /\ IF conn.some /\ Truthy(conn.val.role_arn)
           THEN StatementOf(submitted[i]).credentials =
                    AWS_IAM_ROLE_EQ \o conn.val.role_arn.val
           ELSE /\ credentials.some
                /\ CountOp("S3Hook.get_credentials") = 1
                /\ CredentialsFetchedFirst
                /\ StatementOf(submitted[i]).credentials =
                       build_credentials_block(credentials.val)

\* No step of an execution changes the constructed operator.
ConfigKept == Constructed => self' = self

\* C10: in every execution of a constructed task, first or later, the
\* statement carries the credentials resolved in that same execution, and
\* executing leaves the operator's attributes as construction set them.
C10_FreshResolution == [](OwnCredentialsUsed) /\ [][ConfigKept]_vars

C10_Witness ==
    /\ nexec = 2
    /\ pc = "returned"
    /\ credentials.some
    /\ Len(submitted) = 1
    /\ StatementOf(submitted[1]).credentials = build_credentials_block(credentials.val)

====
